---- MODULE Spec2Model ----
(***************************************************************************)
(* Table extraction from worksheet grids.                                  *)
(*                                                                         *)
(* Two realizations of the engine live in the repository and both are      *)
(* modelled here on the same input grid:                                   *)
(*   - event_trigger/table_extractor.py : ExcelTableExtractor              *)
(*       find_table_boundaries -> extract_table_data -> add_group_column   *)
(*   - function_app.py                                                     *)
(*       detect_table_in_worksheet -> table_to_dataframe                   *)
(*       -> transform_dataframe                                            *)
(* Spec and ScenarioSpec run both on one worksheet.  AliasSpec runs the    *)
(* first with its lists as objects in memory, FileSpec runs a whole        *)
(* workbook through ExcelTableExtractorFunction (event_trigger/            *)
(* function_app.py) and through process_excel_file (function_app.py), and  *)
(* HandlerSpec runs concurrent scqt_cleanser invocations with their        *)
(* temporary files.                                                        *)
(* Row and column indices are 0-based as in the Python code; TLA+          *)
(* sequences are 1-based, so data[i + 1] is the code's data[i].            *)
(* Strings are sequences of one-character strings, so that str() and       *)
(* strip() are computed rather than assumed.                               *)
(***************************************************************************)
EXTENDS Integers, Sequences, FiniteSets, TLC

VARIABLES data, pc, boundaries, table_data, group_id, table, df, sheet_name, filename,
          heap, frame,
          file_content, blob_name, sheet_idx, result, container,
          fs, inv, variant

\* one worksheet passing through the engine
sheet_vars == <<data, boundaries, table_data, table, df, sheet_name, filename>>

\* the objects of one worksheet's lists in memory
alias_vars == <<heap, frame>>

\* one workbook passing through a handler
file_vars == <<file_content, blob_name, sheet_idx, result, container>>

\* handler invocations and the temporary directory they share
handler_vars == <<fs, inv, variant>>

vars == <<data, pc, boundaries, table_data, group_id, table, df, sheet_name, filename,
          heap, frame, file_content, blob_name, sheet_idx, result, container,
          fs, inv, variant>>

----------------------------------------------------------------------------
(* Bounds of the model *)

MaxRows == 3
MaxCols == 5
MaxCells == 6

----------------------------------------------------------------------------
(* Cells and strings *)

None == [kind |-> "none", val |-> <<>>]

Text(s) == [kind |-> "str", val |-> s]

Cells == {None, Text(<<" ">>), Text(<<"a">>)}

\* str(cell)
PyStr(cell) == IF cell.kind = "none" THEN <<"N", "o", "n", "e">> ELSE cell.val

IsSpace(c) == c = " "

RECURSIVE LStrip(_)
LStrip(s) == IF s # <<>> /\ IsSpace(Head(s)) THEN LStrip(Tail(s)) ELSE s

RECURSIVE RStrip(_)
RStrip(s) ==
    IF s # <<>> /\ IsSpace(s[Len(s)]) THEN RStrip(SubSeq(s, 1, Len(s) - 1)) ELSE s

\* str.strip()
Strip(s) == RStrip(LStrip(s))

\* cell is not None and str(cell).strip() != ''
NonEmptyCell(cell) == cell # None /\ Strip(PyStr(cell)) # <<>>

\* cell is None or str(cell).strip() == ''
EmptyCell(cell) == cell = None \/ Strip(PyStr(cell)) = <<>>

----------------------------------------------------------------------------
(* ExcelTableExtractor (event_trigger/table_extractor.py) *)

\* self.value_threshold and self.empty_threshold, in tenths
value_threshold == 8

empty_threshold == 3

\* header_row = None
NoRow == -1

\* return None
NoBoundaries == <<>>

\* max(len(row) for row in data)
RECURSIVE MaxRowLen(_)
MaxRowLen(d) ==
    IF d = <<>> THEN 0
    ELSE LET m == MaxRowLen(Tail(d))
         IN  IF Len(Head(d)) > m THEN Len(Head(d)) ELSE m

\* row + [None] * (cols - len(row)) when the row is short
PadRow(row, cols) ==
    IF Len(row) < cols
    THEN row \o [j \in 1..(cols - Len(row)) |-> None]
    ELSE row

\* sum(1 for cell in row if <cell has a value>)
RECURSIVE non_empty_count(_)
non_empty_count(row) ==
    IF row = <<>> THEN 0
    ELSE (IF NonEmptyCell(Head(row)) THEN 1 ELSE 0) + non_empty_count(Tail(row))

\* the header loop with the threshold compared strictly
RECURSIVE ScanHeader_strict(_, _, _)
ScanHeader_strict(d, cols, i) ==
    IF i >= Len(d) THEN NoRow
    ELSE IF 10 * non_empty_count(PadRow(d[i + 1], cols)) > value_threshold * cols
         THEN i
         ELSE ScanHeader_strict(d, cols, i + 1)

\* the header loop: for i in range(rows) ... break
RECURSIVE ScanHeader(_, _, _)
ScanHeader(d, cols, i) ==
    IF i >= Len(d) THEN NoRow
    ELSE IF 10 * non_empty_count(PadRow(d[i + 1], cols)) >= value_threshold * cols
         THEN i
         ELSE ScanHeader(d, cols, i + 1)

\* the end loop falling back to rows instead of rows - 1
RECURSIVE ScanTableEnd_past(_, _, _)
ScanTableEnd_past(d, cols, i) ==
    IF i >= Len(d) THEN Len(d)
    ELSE IF 10 * non_empty_count(PadRow(d[i + 1], cols)) < empty_threshold * cols
         THEN i - 1
         ELSE ScanTableEnd_past(d, cols, i + 1)

\* the end loop keeping the sparse row itself as the end row
RECURSIVE ScanTableEnd_at(_, _, _)
ScanTableEnd_at(d, cols, i) ==
    IF i >= Len(d) THEN Len(d) - 1
    ELSE IF 10 * non_empty_count(PadRow(d[i + 1], cols)) < empty_threshold * cols
         THEN i
         ELSE ScanTableEnd_at(d, cols, i + 1)

\* the end loop: for i in range(header_row + 1, rows) ... break,
\* followed by "if table_end is None: table_end = rows - 1"
RECURSIVE ScanTableEnd(_, _, _)
ScanTableEnd(d, cols, i) ==
    IF i >= Len(d) THEN Len(d) - 1
    ELSE IF 10 * non_empty_count(PadRow(d[i + 1], cols)) < empty_threshold * cols
         THEN i - 1
         ELSE ScanTableEnd(d, cols, i + 1)

\* the inner loop over range(header_row, table_end + 1) setting has_data
has_data(d, col, header_row, table_end) ==
    \E row \in header_row..table_end :
        /\ row < Len(d)
        /\ col < Len(d[row + 1])
        /\ NonEmptyCell(d[row + 1][col + 1])

\* trim empty columns from left; start_col stays 0 when no column has data
RECURSIVE TrimLeft(_, _, _, _, _)
TrimLeft(d, cols, header_row, table_end, col) ==
    IF col >= cols THEN 0
    ELSE IF has_data(d, col, header_row, table_end) THEN col
         ELSE TrimLeft(d, cols, header_row, table_end, col + 1)

\* the right trim left out: end_col stays cols - 1
TrimRight_none(d, cols, header_row, table_end, col) == cols - 1

\* trim empty columns from right; end_col stays cols - 1 when no column has data
RECURSIVE TrimRight(_, _, _, _, _)
TrimRight(d, cols, header_row, table_end, col) ==
    IF col < 0 THEN cols - 1
    ELSE IF has_data(d, col, header_row, table_end) THEN col
         ELSE TrimRight(d, cols, header_row, table_end, col - 1)

find_table_boundaries(d) ==
    IF d = <<>> THEN NoBoundaries
    ELSE LET cols == MaxRowLen(d)
         IN  IF cols = 0 THEN NoBoundaries
             ELSE LET header_row == ScanHeader(d, cols, 0)
                  IN  IF header_row = NoRow THEN NoBoundaries
                      ELSE LET table_end == ScanTableEnd(d, cols, header_row + 1)
                               start_col == TrimLeft(d, cols, header_row, table_end, 0)
                               end_col == TrimRight(d, cols, header_row, table_end, cols - 1)
                           IN  <<header_row, table_end, start_col, end_col>>

\* one iteration of the loop of extract_table_data: pad, then slice
TableRow(row, start_col, end_col) ==
    LET padded == IF Len(row) <= end_col
                  THEN row \o [j \in 1..(end_col - Len(row) + 1) |-> None]
                  ELSE row
    IN  SubSeq(padded, start_col + 1, end_col + 1)

RECURSIVE ExtractFrom(_, _, _, _, _)
ExtractFrom(d, row_idx, end_row, start_col, end_col) ==
    IF row_idx > end_row THEN <<>>
    ELSE (IF row_idx < Len(d)
          THEN <<TableRow(d[row_idx + 1], start_col, end_col)>>
          ELSE <<>>)
         \o ExtractFrom(d, row_idx + 1, end_row, start_col, end_col)

extract_table_data(d, b) == ExtractFrom(d, b[1], b[2], b[3], b[4])

Group == <<"G", "r", "o", "u", "p">>

\* any(cell is not None and str(cell).strip() != '' for cell in row)
AnyNonEmpty(row) == \E j \in 1..Len(row) : NonEmptyCell(row[j])

\* the group_id loop starting at the header row
add_group_column_all(t, gid) ==
    IF t = <<>> THEN t
    ELSE LET t1 == [t EXCEPT ![1] = Append(@, Text(Group))]
         IN  [i \in 1..Len(t1) |-> Append(t1[i], Text(gid))]

add_group_column(t, gid) ==
    IF t = <<>> THEN t
    ELSE LET t1 == IF AnyNonEmpty(t[1])
                   THEN [t EXCEPT ![1] = Append(@, Text(Group))]
                   ELSE [t EXCEPT ![1] = Append(@, Text(Group))]
             first == IF AnyNonEmpty(t1[1]) THEN 1 ELSE 0
         IN  [i \in 1..Len(t1) |->
                 IF i - 1 >= first THEN Append(t1[i], Text(gid)) ELSE t1[i]]

----------------------------------------------------------------------------
(* function_app.py *)

\* sum(1 for cell in row if cell is not None and str(cell).strip() != '')
RECURSIVE non_empty(_)
non_empty(row) ==
    IF row = <<>> THEN 0
    ELSE (IF NonEmptyCell(Head(row)) THEN 1 ELSE 0) + non_empty(Tail(row))

\* sum(1 for cell in row if cell is None or str(cell).strip() == '')
RECURSIVE empty(_)
empty(row) ==
    IF row = <<>> THEN 0
    ELSE (IF EmptyCell(Head(row)) THEN 1 ELSE 0) + empty(Tail(row))

\* for row_idx, row in enumerate(rows): if non_empty >= 0.8 * num_cols ... break
RECURSIVE DetectHeader(_, _, _)
DetectHeader(rows, num_cols, row_idx) ==
    IF row_idx >= Len(rows) THEN NoRow
    ELSE IF 10 * non_empty(rows[row_idx + 1]) >= 8 * num_cols
         THEN row_idx
         ELSE DetectHeader(rows, num_cols, row_idx + 1)

\* the end loop without its test: end_row stays len(rows) - 1
DetectEnd_last(rows, num_cols, row_idx) == Len(rows) - 1

\* end_row = len(rows) - 1; for row_idx in range(header_row + 1, len(rows)):
\*     if empty >= 0.8 * num_cols: end_row = row_idx - 1; break
RECURSIVE DetectEnd(_, _, _)
DetectEnd(rows, num_cols, row_idx) ==
    IF row_idx >= Len(rows) THEN Len(rows) - 1
    ELSE IF 10 * empty(rows[row_idx + 1]) >= 8 * num_cols
         THEN row_idx - 1
         ELSE DetectEnd(rows, num_cols, row_idx + 1)

Digit(n) == <<"0", "1", "2", "3", "4", "5", "6", "7", "8", "9">>[n + 1]

\* str(n) of a natural number
RECURSIVE IntToStr(_)
IntToStr(n) == IF n < 10 THEN <<Digit(n)>> ELSE IntToStr(n \div 10) \o <<Digit(n % 10)>>

\* f"Column_{col_idx + 1}"
ColumnLabel(col_idx) == <<"C", "o", "l", "u", "m", "n", "_">> \o IntToStr(col_idx + 1)

\* return {}
NoTable ==
    [status |-> "empty", headers |-> <<>>, data |-> <<>>,
     header_row |-> NoRow, end_row |-> NoRow]

\* rows[row_idx][col_idx] with col_idx beyond the row raises IndexError
RaisedIndexError(header_row, end_row) ==
    [status |-> "IndexError", headers |-> <<>>, data |-> <<>>,
     header_row |-> header_row, end_row |-> end_row]

\* headers.append(str(header) if header is not None else f"Column_{col_idx + 1}")
HeaderOf(header, col_idx) ==
    IF header # None THEN PyStr(header) ELSE ColumnLabel(col_idx)

detect_table_in_worksheet(rows) ==
    IF rows = <<>> THEN NoTable
    ELSE LET num_cols == Len(rows[1])
         IN  IF num_cols = 0 THEN NoTable
             ELSE LET header_row == DetectHeader(rows, num_cols, 0)
                  IN  IF header_row = NoRow THEN NoTable
                      ELSE LET end_row == DetectEnd(rows, num_cols, header_row + 1)
                           IN  IF end_row <= header_row THEN NoTable
                               ELSE IF \E row_idx \in header_row..end_row :
                                          Len(rows[row_idx + 1]) < num_cols
                                    THEN RaisedIndexError(header_row, end_row)
                                    ELSE [status |-> "table",
                                          headers |->
                                              [c \in 1..num_cols |->
                                                  HeaderOf(rows[header_row + 1][c], c - 1)],
                                          data |->
                                              [r \in 1..(end_row - header_row) |->
                                                  [c \in 1..num_cols |->
                                                      rows[header_row + r + 1][c]]],
                                          header_row |-> header_row,
                                          end_row |-> end_row]

NoFrame == [columns |-> <<>>, rows |-> <<>>]

\* pd.DataFrame(table['data'], columns=table['headers'])
table_to_dataframe(t) == [columns |-> t.headers, rows |-> t.data]

\* os.path.basename
RECURSIVE basename(_)
basename(p) == IF \E j \in 1..Len(p) : p[j] = "/" THEN basename(Tail(p)) ELSE p

source_file == <<"s", "o", "u", "r", "c", "e", "_", "f", "i", "l", "e">>

source_sheet == <<"s", "o", "u", "r", "c", "e", "_", "s", "h", "e", "e", "t">>

\* df[name] = value: every column called name is overwritten; a new column is
\* appended only when no column has that name
SetColumn(f, name, value) ==
    IF \E j \in 1..Len(f.columns) : f.columns[j] = name
    THEN [f EXCEPT !.rows =
             [r \in 1..Len(f.rows) |->
                 [j \in 1..Len(f.columns) |->
                     IF f.columns[j] = name THEN Text(value) ELSE f.rows[r][j]]]]
    ELSE [columns |-> Append(f.columns, name),
          rows |-> [r \in 1..Len(f.rows) |-> Append(f.rows[r], Text(value))]]

transform_dataframe(f, sheet, file) ==
    LET stripped == [f EXCEPT !.columns = [j \in 1..Len(f.columns) |-> Strip(f.columns[j])]]
    IN  SetColumn(SetColumn(stripped, source_file, basename(file)), source_sheet, sheet)

----------------------------------------------------------------------------
(* Inputs *)

GroupIds == {<<>>, <<"T", "7">>}

SheetNames == {<<"S", "1">>}

FileNames == {<<"f">>, <<"s", "/", "f">>}

RECURSIVE SumLens(_)
SumLens(shape) == IF shape = <<>> THEN 0 ELSE Head(shape) + SumLens(Tail(shape))

Shapes ==
    {sh \in UNION {[1..r -> 0..MaxCols] : r \in 0..MaxRows} : SumLens(sh) <= MaxCells}

RECURSIVE GridsOfShape(_)
GridsOfShape(shape) ==
    IF shape = <<>> THEN {<<>>}
    ELSE {<<row>> \o rest : row \in [1..Head(shape) -> Cells],
                            rest \in GridsOfShape(Tail(shape))}

----------------------------------------------------------------------------
(* Parts of the state that an operation sequence does not use *)

\* no worksheet is in the engine
SheetIdle ==
    /\ data = <<>>
    /\ boundaries = NoBoundaries
    /\ table_data = <<>>
    /\ table = NoTable
    /\ df = NoFrame
    /\ sheet_name = <<>>
    /\ filename = <<>>

\* no list object is tracked
AliasIdle ==
    /\ heap = <<>>
    /\ frame = [sheet_data |-> 0, table_data |-> 0, table_data_with_group |-> 0,
                table_data_again |-> 0]

\* no workbook is in a handler
FileIdle ==
    /\ file_content = [ok |-> FALSE, sheets |-> <<>>]
    /\ blob_name = <<>>
    /\ sheet_idx = 0
    /\ result = <<>>
    /\ container = [exists |-> FALSE, blobs |-> {}]

\* no handler invocation is running
HandlerIdle ==
    /\ fs = {}
    /\ inv = <<>>
    /\ variant = ""

----------------------------------------------------------------------------
(* Operations *)

Init ==
    /\ \E sh \in Shapes : data \in GridsOfShape(sh)
    /\ pc = "start"
    /\ boundaries = NoBoundaries
    /\ table_data = <<>>
    /\ group_id = <<>>
    /\ table = NoTable
    /\ df = NoFrame
    /\ sheet_name = <<>>
    /\ filename = <<>>
    /\ AliasIdle
    /\ FileIdle
    /\ HandlerIdle

FindTableBoundaries ==
    /\ pc = "start"
    /\ boundaries' = find_table_boundaries(data)
    /\ pc' = IF boundaries' = NoBoundaries THEN "skipped" ELSE "located"
    /\ UNCHANGED <<data, table_data, group_id, table, df, sheet_name, filename>>
    /\ UNCHANGED <<alias_vars, file_vars, handler_vars>>

ExtractTableData ==
    /\ pc = "located"
    /\ table_data' = extract_table_data(data, boundaries)
    /\ pc' = IF table_data' = <<>> THEN "skipped" ELSE "extracted"
    /\ UNCHANGED <<data, boundaries, group_id, table, df, sheet_name, filename>>
    /\ UNCHANGED <<alias_vars, file_vars, handler_vars>>

AddGroupColumn(gid) ==
    /\ pc = "extracted"
    /\ group_id' = gid
    /\ table_data' = add_group_column(table_data, gid)
    /\ pc' = "grouped"
    /\ UNCHANGED <<data, boundaries, table, df, sheet_name, filename>>
    /\ UNCHANGED <<alias_vars, file_vars, handler_vars>>

DetectTableInWorksheet ==
    /\ pc = "start"
    /\ table' = detect_table_in_worksheet(data)
    /\ pc' = CASE table'.status = "table" -> "detected"
              [] table'.status = "empty" -> "no_table"
              [] OTHER -> "raised"
    /\ UNCHANGED <<data, boundaries, table_data, group_id, df, sheet_name, filename>>
    /\ UNCHANGED <<alias_vars, file_vars, handler_vars>>

TableToDataframe ==
    /\ pc = "detected"
    /\ df' = table_to_dataframe(table)
    /\ pc' = "framed"
    /\ UNCHANGED <<data, boundaries, table_data, group_id, table, sheet_name, filename>>
    /\ UNCHANGED <<alias_vars, file_vars, handler_vars>>

TransformDataframe(sheet, file) ==
    /\ pc = "framed"
    /\ sheet_name' = sheet
    /\ filename' = file
    /\ df' = transform_dataframe(df, sheet, file)
    /\ pc' = "transformed"
    /\ UNCHANGED <<data, boundaries, table_data, group_id, table>>
    /\ UNCHANGED <<alias_vars, file_vars, handler_vars>>

Next ==
    \/ FindTableBoundaries
    \/ ExtractTableData
    \/ \E gid \in GroupIds : AddGroupColumn(gid)
    \/ DetectTableInWorksheet
    \/ TableToDataframe
    \/ \E sheet \in SheetNames, file \in FileNames : TransformDataframe(sheet, file)

Spec == Init /\ [][Next]_vars

----------------------------------------------------------------------------
(* Vocabulary of the properties, stated on the grid itself *)

SetMin(S) == CHOOSE x \in S : \A y \in S : x <= y

SetMax(S) == CHOOSE x \in S : \A y \in S : y <= x

RowIndices == 0..(Len(data) - 1)

\* how many cells of a row hold a value / are empty
FilledCells(row) == Cardinality({j \in 1..Len(row) : NonEmptyCell(row[j])})

BlankCells(row) == Cardinality({j \in 1..Len(row) : EmptyCell(row[j])})

\* column count of the grid as each realization takes it
WidestRow == IF data = <<>> THEN 0 ELSE SetMax({Len(data[i + 1]) : i \in RowIndices})

FirstRowLen == IF data = <<>> THEN 0 ELSE Len(data[1])

\* rows whose non-empty fraction reaches the header threshold
DenseRowsExtractor ==
    {i \in RowIndices : 10 * FilledCells(data[i + 1]) >= value_threshold * WidestRow}

DenseRowsWorksheet ==
    {i \in RowIndices : 10 * FilledCells(data[i + 1]) >= 8 * FirstRowLen}

AllCellsEmpty ==
    \A i \in RowIndices : \A j \in 1..Len(data[i + 1]) : EmptyCell(data[i + 1][j])

\* the end-of-table condition of each realization
EndsTableExtractor(i) == 10 * FilledCells(data[i + 1]) < empty_threshold * WidestRow

EndsTableWorksheet(i) == 10 * BlankCells(data[i + 1]) >= 8 * FirstRowLen

ColumnHasValue(c, h, e) ==
    \E r \in h..e : c < Len(data[r + 1]) /\ NonEmptyCell(data[r + 1][c + 1])

AfterFindTableBoundaries == pc \in {"located", "skipped"}

AfterDetectTable == pc \in {"detected", "no_table", "raised"}

----------------------------------------------------------------------------
(* Properties *)

C2_EmptyGridNotFound ==
    (data = <<>> \/ FirstRowLen = 0) =>
        /\ AfterFindTableBoundaries => boundaries = NoBoundaries
        /\ AfterDetectTable => table.status = "empty"

\* C3: when the end boundary is not strictly greater than the header row the
\* result is NotFound, so no table with zero data rows is ever produced.
C3_NoTableWithoutDataRows ==
    /\ pc = "located" => boundaries[2] > boundaries[1]
    /\ pc \in {"extracted", "grouped"} => Len(table_data) >= 2
    /\ pc = "detected" => (table.end_row > table.header_row /\ Len(table.data) >= 1)

C5_EndRowBeforeFirstSparseRow ==
    /\ pc = "located" =>
         LET stops == {i \in (boundaries[1] + 1)..(Len(data) - 1) : EndsTableExtractor(i)}
         IN  /\ boundaries[2] = IF stops = {} THEN Len(data) - 1 ELSE SetMin(stops) - 1
             /\ \A i \in (boundaries[1] + 1)..boundaries[2] : ~EndsTableExtractor(i)
    /\ pc \in {"detected", "raised"} =>
         LET stops == {i \in (table.header_row + 1)..(Len(data) - 1) : EndsTableWorksheet(i)}
         IN  /\ table.end_row = IF stops = {} THEN Len(data) - 1 ELSE SetMin(stops) - 1
             /\ \A i \in (table.header_row + 1)..table.end_row : ~EndsTableWorksheet(i)
    /\ pc = "detected" => Len(table.data) = table.end_row - table.header_row

\* a table with data rows that stops before the last row of the grid
C5_Witness ==
    /\ pc = "located"
    /\ boundaries[2] > boundaries[1]
    /\ boundaries[2] < Len(data) - 1

\* C6: within the rows [header_row, end_row], start_col is the smallest column
\* index holding a non-empty cell and end_col the largest, so every column
\* outside [start_col, end_col] is empty in that span; with no data in any
\* column the full width is kept and nothing is raised.
C6_ColumnsTrimmedToData ==
    pc = "located" =>
        LET header_row == boundaries[1]
            end_row == boundaries[2]
            filled == {c \in 0..(WidestRow - 1) : ColumnHasValue(c, header_row, end_row)}
        IN  IF filled = {}
            THEN boundaries[3] = 0 /\ boundaries[4] = WidestRow - 1
            ELSE /\ boundaries[3] = SetMin(filled)
                 /\ boundaries[4] = SetMax(filled)
                 /\ \A c \in 0..(WidestRow - 1) :
                        (c < boundaries[3] \/ c > boundaries[4])
                            => ~ColumnHasValue(c, header_row, end_row)

\* a column span narrower than the grid on the right
C6_Witness ==
    /\ pc = "located"
    /\ boundaries[4] < WidestRow - 1

\* the cell of row i (0-based) at column c (0-based), empty when the row is short
CellAt(i, c) == IF c < Len(data[i + 1]) THEN data[i + 1][c + 1] ELSE None

\* C7: materialize produces exactly one row for each grid row in
\* (header_row, end_row], each with end_col - start_col + 1 cells, short rows
\* right-padded with empty cells; no row is dropped and nothing is raised
\* because a row is short.
C7_EveryRowMaterialized ==
    /\ pc = "extracted" =>
         LET header_row == boundaries[1]
             end_row == boundaries[2]
             start_col == boundaries[3]
             end_col == boundaries[4]
         IN  /\ Len(table_data) = end_row - header_row + 1
             /\ \A k \in 1..(end_row - header_row) :
                    table_data[k + 1] =
                        [c \in 1..(end_col - start_col + 1) |->
                            CellAt(header_row + k, start_col + c - 1)]
    /\ pc = "detected" =>
         /\ Len(table.data) = table.end_row - table.header_row
         /\ \A k \in 1..Len(table.data) :
                table.data[k] = [c \in 1..FirstRowLen |-> CellAt(table.header_row + k, c - 1)]
    /\ pc # "raised"

\* the header the specification asks for at 1-based position k of the range
SynthesizedHeader(cell, k) ==
    IF EmptyCell(cell) THEN ColumnLabel(k - 1) ELSE Strip(PyStr(cell))

\* C8: every empty header cell is replaced by Column_<k>, k its 1-based
\* position within the column range, every other header is the trimmed string
\* of the cell; no header of the output table is the empty string.
C8_HeadersSynthesized ==
    /\ pc = "transformed" =>
         \A k \in 1..Len(table.headers) :
             /\ df.columns[k] = SynthesizedHeader(CellAt(table.header_row, k - 1), k)
             /\ df.columns[k] # <<>>
    /\ pc = "extracted" =>
         \A k \in 1..Len(table_data[1]) :
             table_data[1][k] =
                 Text(SynthesizedHeader(CellAt(boundaries[1], boundaries[3] + k - 1), k))

\* C9: every output table has source_file and source_sheet as trailing header
\* columns and every data row carries the file name and the sheet name there.
C9_ProvenanceColumns ==
    /\ pc = "transformed" =>
         LET n == Len(df.columns)
         IN  /\ n >= 2
             /\ df.columns[n - 1] = source_file
             /\ df.columns[n] = source_sheet
             /\ \A r \in 1..Len(df.rows) :
                    /\ df.rows[r][n - 1] = Text(basename(filename))
                    /\ df.rows[r][n] = Text(sheet_name)
    /\ pc = "grouped" =>
         LET n == Len(table_data[1])
         IN  /\ n >= 3
             /\ table_data[1][n - 2] = Text(source_file)
             /\ table_data[1][n - 1] = Text(source_sheet)

\* C10: add_group_column appends exactly one cell to every row of a non-empty
\* table: "Group" to the first row and group_id to each later row, so rows of
\* equal length stay of equal length and no data row receives "Group" in place
\* of group_id or is left unextended.
C10_GroupColumnAppended ==
    [][(pc = "extracted" /\ pc' = "grouped") =>
          /\ Len(table_data') = Len(table_data)
          /\ table_data'[1] = Append(table_data[1], Text(Group))
          /\ \A i \in 2..Len(table_data) :
                 table_data'[i] = Append(table_data[i], Text(group_id'))]_vars

\* a table with data rows enriched with the empty group identifier
C10_Witness ==
    /\ pc = "grouped"
    /\ group_id = <<>>
    /\ Len(table_data) >= 2
    /\ Len(table_data[2]) = Len(table_data[1])

----------------------------------------------------------------------------
(* Strings of file and sheet names *)

UpperCase ==
    <<"A", "B", "C", "D", "E", "F", "G", "H", "I", "J", "K", "L", "M",
      "N", "O", "P", "Q", "R", "S", "T", "U", "V", "W", "X", "Y", "Z">>

LowerCase ==
    <<"a", "b", "c", "d", "e", "f", "g", "h", "i", "j", "k", "l", "m",
      "n", "o", "p", "q", "r", "s", "t", "u", "v", "w", "x", "y", "z">>

\* str.lower(), one character
LowerChar(c) ==
    IF \E k \in 1..Len(UpperCase) : UpperCase[k] = c
    THEN LowerCase[CHOOSE k \in 1..Len(UpperCase) : UpperCase[k] = c]
    ELSE c

\* str.lower()
Lower(s) == [j \in 1..Len(s) |-> LowerChar(s[j])]

\* c.isalnum()
IsAlnum(c) ==
    \/ \E k \in 1..Len(UpperCase) : UpperCase[k] = c \/ LowerCase[k] = c
    \/ \E n \in 0..9 : Digit(n) = c

\* s.endswith(suffix)
EndsWith(s, suffix) ==
    /\ Len(s) >= Len(suffix)
    /\ SubSeq(s, Len(s) - Len(suffix) + 1, Len(s)) = suffix

\* s.split(c) with a one-character separator
RECURSIVE Split(_, _)
Split(s, c) ==
    IF \E j \in 1..Len(s) : s[j] = c
    THEN LET i == CHOOSE j \in 1..Len(s) : s[j] = c /\ \A k \in 1..(j - 1) : s[k] # c
         IN  <<SubSeq(s, 1, i - 1)>> \o Split(SubSeq(s, i + 1, Len(s)), c)
    ELSE <<s>>

\* s.rfind(c) + 1: the 1-based position of the last c, 0 when there is none
RFind(s, c) ==
    IF \E j \in 1..Len(s) : s[j] = c
    THEN CHOOSE j \in 1..Len(s) : s[j] = c /\ \A k \in (j + 1)..Len(s) : s[k] # c
    ELSE 0

\* os.path.splitext: the last dot after the last separator splits the name,
\* unless only dots precede it in the file name
splitext(p) ==
    LET sepIndex == RFind(p, "/")
        dotIndex == RFind(p, ".")
    IN  IF dotIndex > sepIndex /\ \E k \in (sepIndex + 1)..(dotIndex - 1) : p[k] # "."
        THEN <<SubSeq(p, 1, dotIndex - 1), SubSeq(p, dotIndex, Len(p))>>
        ELSE <<p, <<>>>>

xls == <<".", "x", "l", "s">>

xlsx == <<".", "x", "l", "s", "x">>

----------------------------------------------------------------------------
(* ExcelTableExtractor.process_excel_content and the handler around it      *)
(* (event_trigger/table_extractor.py, event_trigger/function_app.py)        *)

\* the part after the last underscore taken as group_id
extract_group_id_last(name) ==
    LET parts == Split(name, "_")
    IN  IF Len(parts) >= 2 THEN parts[Len(parts)] ELSE <<>>

\* parts = blob_name.split('_'); parts[1] if len(parts) >= 2 else ""
extract_group_id(name) ==
    LET parts == Split(name, "_")
    IN  IF Len(parts) >= 2 THEN parts[2] ELSE <<>>

\* csv.writer with the excel dialect: a field holding the delimiter, the quote
\* character or a line break is quoted, its quotes doubled
NeedsQuote(f) == \E j \in 1..Len(f) : f[j] \in {",", "\"", "\r", "\n"}

RECURSIVE DoubleQuotes(_)
DoubleQuotes(f) ==
    IF f = <<>> THEN <<>>
    ELSE (IF Head(f) = "\"" THEN <<"\"", "\"">> ELSE <<Head(f)>>) \o DoubleQuotes(Tail(f))

\* None is written as the empty field
CsvField(cell) ==
    LET f == IF cell = None THEN <<>> ELSE PyStr(cell)
    IN  IF NeedsQuote(f) THEN <<"\"">> \o DoubleQuotes(f) \o <<"\"">> ELSE f

RECURSIVE CsvJoin(_)
CsvJoin(row) ==
    IF Len(row) = 1 THEN CsvField(Head(row))
    ELSE CsvField(Head(row)) \o <<",">> \o CsvJoin(Tail(row))

\* one writerow: a row of a single empty field is written as ""
CsvRow(row) ==
    (IF row = <<>> THEN <<>>
     ELSE IF Len(row) = 1 /\ CsvField(row[1]) = <<>> THEN <<"\"", "\"">>
     ELSE CsvJoin(row)) \o <<"\r", "\n">>

\* writer.writerows(data); output.getvalue().encode('utf-8')
RECURSIVE table_to_csv_bytes(_)
table_to_csv_bytes(t) ==
    IF t = <<>> THEN <<>> ELSE CsvRow(Head(t)) \o table_to_csv_bytes(Tail(t))

\* read_excel_sheet: the sheet as a list of rows, [] when reading raises
read_excel_sheet(sheet) == IF sheet.readable THEN sheet.grid ELSE <<>>

\* result[name] = csv: a dictionary keeps its keys in insertion order and a key
\* that is set again keeps its place
DictSet(res, name, csv) ==
    IF \E k \in 1..Len(res) : res[k].name = name
    THEN [k \in 1..Len(res) |-> IF res[k].name = name THEN [name |-> name, csv |-> csv]
                                                       ELSE res[k]]
    ELSE Append(res, [name |-> name, csv |-> csv])

\* one iteration of the loop over sheet_names: the result dictionary after it
ProcessedSheet(res, sheet, gid) ==
    LET sheet_data == read_excel_sheet(sheet)
    IN  IF sheet_data = <<>> THEN res
        ELSE LET b == find_table_boundaries(sheet_data)
             IN  IF b = NoBoundaries THEN res
                 ELSE LET t == extract_table_data(sheet_data, b)
                      IN  IF t = <<>> THEN res
                          ELSE DictSet(res, sheet.name,
                                       table_to_csv_bytes(add_group_column(t, gid)))

\* safe_sheet_name = "".join(c if c.isalnum() else "_" for c in sheet_name)
safe_sheet_name(name) == [j \in 1..Len(name) |-> IF IsAlnum(name[j]) THEN name[j] ELSE "_"]

table_csv == <<"_", "t", "a", "b", "l", "e", ".", "c", "s", "v">>

\* f"{base_name}_{safe_sheet_name}_table.csv"
output_blob_name(base_name, name) ==
    base_name \o <<"_">> \o safe_sheet_name(name) \o table_csv

\* upload_blob(content, overwrite=True): the blob of that name is replaced
upload_blob(c, name, content) ==
    [c EXCEPT !.blobs = {b \in @ : b.name # name} \cup {[name |-> name, content |-> content]}]

----------------------------------------------------------------------------
(* process_excel_file and its helpers (function_app.py) *)

\* filename.lower().endswith(('.xls', '.xlsx'))
is_excel_file(name) == EndsWith(Lower(name), xls) \/ EndsWith(Lower(name), xlsx)

\* df.to_csv(index=False): the header line, then one line per row
RECURSIVE CsvLines(_)
CsvLines(rows) ==
    IF rows = <<>> THEN <<>>
    ELSE (IF Len(Head(rows)) = 1 /\ CsvField(Head(rows)[1]) = <<>> THEN <<"\"", "\"">>
          ELSE IF Head(rows) = <<>> THEN <<>>
          ELSE CsvJoin(Head(rows))) \o <<"\n">> \o CsvLines(Tail(rows))

to_csv(f) == CsvLines(<<[j \in 1..Len(f.columns) |-> Text(f.columns[j])]>> \o f.rows)

processed == <<"p", "r", "o", "c", "e", "s", "s", "e", "d", "/">>

dot_csv == <<".", "c", "s", "v">>

\* f"processed/{original_name}_{sheet_name}.csv"
processed_blob_name(original_blob_name, sheet) ==
    processed \o splitext(basename(original_blob_name))[1] \o <<"_">> \o sheet \o dot_csv

\* save_dataframe_to_blob
save_dataframe_to_blob(c, f, original_blob_name, sheet) ==
    upload_blob(c, processed_blob_name(original_blob_name, sheet), to_csv(f))

----------------------------------------------------------------------------
(* Workbooks *)

MaxSheets == 2

A == Text(<<"a">>)

\* an empty sheet, a blank sheet, a header without rows below it, a table,
\* and a table whose second row is short
SheetGrids ==
    {<<>>, <<<<None, None>>>>, <<<<A>>>>, <<<<A, A>>, <<A, A>>>>, <<<<A, A>>, <<A>>>>}

WorkbookSheetNames == {<<"a", " ", "b">>, <<"a", "_", "b">>, <<"a", "b">>}

Sheets ==
    {[name |-> n, readable |-> TRUE, grid |-> g] : n \in WorkbookSheetNames, g \in SheetGrids}
        \cup {[name |-> n, readable |-> FALSE, grid |-> <<>>] : n \in WorkbookSheetNames}

\* the sheets of a workbook have different names
Workbooks ==
    {w \in UNION {[1..n -> Sheets] : n \in 0..MaxSheets} :
        \A i, j \in 1..Len(w) : i # j => w[i].name # w[j].name}

report_TEAM7_2024_xlsx ==
    <<"r", "e", "p", "o", "r", "t", "_", "T", "E", "A", "M", "7", "_",
      "2", "0", "2", "4", ".", "x", "l", "s", "x">>

report_xlsx == <<"r", "e", "p", "o", "r", "t", ".", "x", "l", "s", "x">>

BlobNames ==
    {report_TEAM7_2024_xlsx,
     report_xlsx,
     <<"d", "_", "e", "/", "r", "_", "T", "7", ".", "x", "l", "s">>,
     <<"R", "_", ".", "X", "L", "S", "X">>,
     <<"n", ".", "t", "x", "t">>}

FileInit ==
    /\ \E w \in Workbooks, ok \in BOOLEAN :
           /\ ok = FALSE => w = <<>>
           /\ file_content = [ok |-> ok, sheets |-> w]
    /\ blob_name \in BlobNames
    /\ sheet_idx = 0
    /\ result = <<>>
    /\ container \in {[exists |-> e, blobs |-> {}] : e \in BOOLEAN}
    /\ pc = "start"
    /\ group_id = <<>>
    /\ SheetIdle
    /\ AliasIdle
    /\ HandlerIdle

----------------------------------------------------------------------------
(* Operations on a workbook *)

\* the loop over tables.items(), each table uploaded under its output name
RECURSIVE UploadTables(_, _, _)
UploadTables(c, tables, base_name) ==
    IF tables = <<>> THEN c
    ELSE UploadTables(upload_blob(c, output_blob_name(base_name, Head(tables).name),
                                  Head(tables).csv),
                      Tail(tables), base_name)

\* ExcelTableExtractorFunction: a blob that is no Excel file is left alone
SkipNonExcelBlob ==
    /\ pc = "start"
    /\ Lower(splitext(blob_name)[2]) \notin {xls, xlsx}
    /\ pc' = "not_excel"
    /\ UNCHANGED <<group_id, file_vars, sheet_vars, alias_vars, handler_vars>>

\* process_excel_content up to the loop: group_id, then the sheet names
ExtractGroupId ==
    /\ pc = "start"
    /\ Lower(splitext(blob_name)[2]) \in {xls, xlsx}
    /\ group_id' = extract_group_id(basename(blob_name))
    /\ pc' = IF file_content.ok THEN "sheets" ELSE "no_tables"
    /\ UNCHANGED <<file_vars, sheet_vars, alias_vars, handler_vars>>

\* one iteration of "for sheet_name in sheet_names"
ProcessSheet ==
    /\ pc = "sheets"
    /\ sheet_idx < Len(file_content.sheets)
    /\ result' = ProcessedSheet(result, file_content.sheets[sheet_idx + 1], group_id)
    /\ sheet_idx' = sheet_idx + 1
    /\ UNCHANGED <<pc, group_id, file_content, blob_name, container>>
    /\ UNCHANGED <<sheet_vars, alias_vars, handler_vars>>

\* return result; back in the handler: nothing to do without tables, else the
\* output container is created when missing and every table is uploaded
UploadEachTable ==
    /\ pc = "sheets"
    /\ sheet_idx = Len(file_content.sheets)
    /\ IF result = <<>>
       THEN /\ pc' = "no_tables"
            /\ UNCHANGED container
       ELSE /\ pc' = "uploaded"
            /\ container' = UploadTables([container EXCEPT !.exists = TRUE], result,
                                         splitext(basename(blob_name))[1])
    /\ UNCHANGED <<group_id, file_content, blob_name, sheet_idx, result>>
    /\ UNCHANGED <<sheet_vars, alias_vars, handler_vars>>

\* scqt_cleanser: a blob that is no Excel file is left alone
SkipNonExcelFile ==
    /\ pc = "start"
    /\ ~is_excel_file(blob_name)
    /\ pc' = "skipped"
    /\ UNCHANGED <<group_id, file_vars, sheet_vars, alias_vars, handler_vars>>

\* process_excel_file: load_workbook raises on a file that is no workbook
LoadWorkbook ==
    /\ pc = "start"
    /\ is_excel_file(blob_name)
    /\ pc' = IF file_content.ok THEN "worksheets" ELSE "raised"
    /\ UNCHANGED <<group_id, file_vars, sheet_vars, alias_vars, handler_vars>>

\* one iteration of "for sheet_name in workbook.sheetnames"; an exception
\* leaves the loop through the finally block
ProcessWorksheet ==
    /\ pc = "worksheets"
    /\ sheet_idx < Len(file_content.sheets)
    /\ LET sheet == file_content.sheets[sheet_idx + 1]
           t == detect_table_in_worksheet(sheet.grid)
       IN  IF ~sheet.readable \/ t.status = "IndexError"
           THEN /\ pc' = "raised"
                /\ UNCHANGED <<sheet_idx, container>>
           ELSE /\ pc' = pc
                /\ sheet_idx' = sheet_idx + 1
                /\ container' =
                       IF t.status = "empty" THEN container
                       ELSE save_dataframe_to_blob(
                                container,
                                transform_dataframe(table_to_dataframe(t), sheet.name, blob_name),
                                blob_name, sheet.name)
    /\ UNCHANGED <<group_id, file_content, blob_name, result>>
    /\ UNCHANGED <<sheet_vars, alias_vars, handler_vars>>

\* the loop ends; finally: workbook.close()
CloseWorkbook ==
    /\ pc = "worksheets"
    /\ sheet_idx = Len(file_content.sheets)
    /\ pc' = "closed"
    /\ UNCHANGED <<group_id, file_vars, sheet_vars, alias_vars, handler_vars>>

FileNext ==
    \/ SkipNonExcelBlob
    \/ ExtractGroupId
    \/ ProcessSheet
    \/ UploadEachTable
    \/ SkipNonExcelFile
    \/ LoadWorkbook
    \/ ProcessWorksheet
    \/ CloseWorkbook

FileSpec == FileInit /\ [][FileNext]_vars

----------------------------------------------------------------------------
(* Properties of a workbook's processing *)

\* the file name of a path: what follows its last separator
FileBaseName(path) ==
    LET seps == {j \in 1..Len(path) : path[j] = "/"}
    IN  IF seps = {} THEN path ELSE SubSeq(path, SetMax(seps) + 1, Len(path))

\* what stands between the first underscore of a name and the next one (or the
\* end of the name); the empty string for a name without underscore
SecondPart(name) ==
    LET us == {j \in 1..Len(name) : name[j] = "_"}
    IN  IF us = {} THEN <<>>
        ELSE LET first == SetMin(us)
                 later == {j \in us : j > first}
                 stop == IF later = {} THEN Len(name) + 1 ELSE SetMin(later)
             IN  SubSeq(name, first + 1, stop - 1)

AfterExtractGroupId == pc \in {"sheets", "no_tables", "uploaded"}

\* the sheets of the workbook in which the extractor finds a table
SheetsWithTable ==
    {k \in 1..Len(file_content.sheets) :
        LET sheet == file_content.sheets[k]
        IN  /\ sheet.readable
            /\ sheet.grid # <<>>
            /\ find_table_boundaries(sheet.grid) # NoBoundaries}

\* C11: the group identifier is the second part (index 1) of the file's base
\* name split on '_' when there are at least two parts and the empty string
\* otherwise; report_TEAM7_2024.xlsx gives "TEAM7", report.xlsx gives "".  It is
\* computed once per file: every table of the result carries that identifier.
C11_GroupIdIsSecondPart ==
    AfterExtractGroupId =>
        /\ group_id = SecondPart(FileBaseName(blob_name))
        /\ blob_name = report_TEAM7_2024_xlsx => group_id = <<"T", "E", "A", "M", "7">>
        /\ blob_name = report_xlsx => group_id = <<>>
        /\ \A k \in 1..Len(result) :
               \E i \in SheetsWithTable :
                   LET sheet == file_content.sheets[i]
                       t == extract_table_data(sheet.grid, find_table_boundaries(sheet.grid))
                   IN  /\ result[k].name = sheet.name
                       /\ result[k].csv =
                              table_to_csv_bytes(
                                  add_group_column(t, SecondPart(FileBaseName(blob_name))))

\* two tables of one file, both tagged with the identifier of a name that has
\* three parts
C11_Witness ==
    /\ pc = "uploaded"
    /\ blob_name = report_TEAM7_2024_xlsx
    /\ group_id = <<"T", "E", "A", "M", "7">>
    /\ Len(result) = 2

\* the names of the sheets of S, in workbook order
RECURSIVE NamesOf(_, _)
NamesOf(S, k) ==
    IF k > Len(file_content.sheets) THEN <<>>
    ELSE (IF k \in S THEN <<file_content.sheets[k].name>> ELSE <<>>) \o NamesOf(S, k + 1)

\* the sheets of the workbook in which detect_table_in_worksheet finds a table
WorksheetsWithTable ==
    {k \in 1..Len(file_content.sheets) :
        LET sheet == file_content.sheets[k]
        IN  sheet.readable /\ detect_table_in_worksheet(sheet.grid).status = "table"}

HasBlob(name) == \E b \in container.blobs : b.name = name

\* C12: a sheet that is skipped (unreadable, empty, or without table) does not
\* stop the loop: when the processing of a readable workbook ends, every sheet
\* has been visited and the result holds an entry for a sheet exactly when a
\* table was found in that sheet, whatever happened to the other sheets.
C12_SheetsIsolated ==
    /\ (pc \in {"no_tables", "uploaded"} /\ file_content.ok) =>
           /\ sheet_idx = Len(file_content.sheets)
           /\ [k \in 1..Len(result) |-> result[k].name] = NamesOf(SheetsWithTable, 1)
    /\ (pc \in {"closed", "raised"} /\ file_content.ok) =>
           /\ sheet_idx = Len(file_content.sheets)
           /\ \A k \in 1..Len(file_content.sheets) :
                  HasBlob(processed_blob_name(blob_name, file_content.sheets[k].name))
                      <=> k \in WorksheetsWithTable

\* the same for process_excel_content alone, whose read_excel_sheet catches
\* what reading a sheet raises
ExtractorSheetsIsolated ==
    (pc \in {"no_tables", "uploaded"} /\ file_content.ok) =>
        /\ sheet_idx = Len(file_content.sheets)
        /\ [k \in 1..Len(result) |-> result[k].name] = NamesOf(SheetsWithTable, 1)

----------------------------------------------------------------------------
(* A worksheet with a blank row above and below its table *)

BlankRow == <<Text(<<>>), Text(<<>>), Text(<<>>)>>

HeaderRow == <<Text(<<"I", "D">>), Text(<<"N", "a", "m", "e">>), Text(<<"Q", "t", "y">>)>>

FirstDataRow == <<Text(<<"1">>), Text(<<"A">>), Text(<<"5">>)>>

SecondDataRow == <<Text(<<"2">>), Text(<<"B">>), Text(<<"3">>)>>

TrailingRow == <<Text(<<"x">>), Text(<<"y">>), Text(<<"z">>)>>

ScenarioGrid ==
    <<BlankRow, HeaderRow, FirstDataRow, SecondDataRow, BlankRow, TrailingRow>>

\* the grid and every grid of its size made of its rows
ScenarioGrids ==
    [1..Len(ScenarioGrid) -> {ScenarioGrid[i] : i \in 1..Len(ScenarioGrid)}]

ScenarioInit ==
    /\ data \in ScenarioGrids
    /\ pc = "start"
    /\ boundaries = NoBoundaries
    /\ table_data = <<>>
    /\ group_id = <<>>
    /\ table = NoTable
    /\ df = NoFrame
    /\ sheet_name = <<>>
    /\ filename = <<>>
    /\ AliasIdle
    /\ FileIdle
    /\ HandlerIdle

ScenarioSpec == ScenarioInit /\ [][Next]_vars

\* C13: for the grid [["","",""],["ID","Name","Qty"],["1","A","5"],["2","B","3"],
\* ["","",""],["x","y","z"]] the header row is index 1, the end row is index 3,
\* the columns are 0..2, the headers are ["ID","Name","Qty"], the data rows are
\* [["1","A","5"],["2","B","3"]], and the row at index 5 is excluded.
C13_ScenarioTable ==
    data = ScenarioGrid =>
        /\ pc \notin {"no_table", "raised", "skipped"}
        /\ pc \in {"detected", "framed", "transformed"} =>
               /\ table.header_row = 1
               /\ table.end_row = 3
               /\ table.headers = <<<<"I", "D">>, <<"N", "a", "m", "e">>, <<"Q", "t", "y">>>>
               /\ table.data = <<FirstDataRow, SecondDataRow>>
               /\ \A k \in 1..Len(table.data) : table.data[k] # TrailingRow
        /\ pc \in {"framed", "transformed"} =>
               /\ SubSeq(df.columns, 1, 3) = table.headers
               /\ Len(df.rows) = 2
        /\ pc \in {"located", "extracted", "grouped"} => boundaries = <<1, 3, 0, 2>>
        /\ pc = "extracted" => table_data = <<HeaderRow, FirstDataRow, SecondDataRow>>

\* the scenario grid once its table has been detected
C13_Witness ==
    /\ data = ScenarioGrid
    /\ pc = "detected"
    /\ Len(table.data) = 2

----------------------------------------------------------------------------
(* The lists of one worksheet as objects in memory                          *)
(* (event_trigger/table_extractor.py)                                       *)
(*                                                                          *)
(* heap[r] holds the items of the list with reference r: cells for a row,   *)
(* references of rows for a grid or a table.  Lists that are no longer      *)
(* referenced stay in the heap.                                             *)

\* the rows behind a list of rows
Deref(h, ref) == [i \in 1..Len(h[ref]) |-> h[h[ref][i]]]

\* row += extra: the list itself is extended
Concat_inplace(h, ref, extra) == [heap |-> [h EXCEPT ![ref] = @ \o extra], ref |-> ref]

\* row + extra: a new list
Concat(h, ref, extra) == [heap |-> Append(h, h[ref] \o extra), ref |-> Len(h) + 1]

\* row[lo:hi]: a new list
Slice(h, ref, lo, hi) ==
    LET stop == IF hi < Len(h[ref]) THEN hi ELSE Len(h[ref])
    IN  [heap |-> Append(h, SubSeq(h[ref], lo + 1, stop)), ref |-> Len(h) + 1]

\* lst.append(x)
ListAppend(h, ref, x) == [h EXCEPT ![ref] = Append(@, x)]

Nones(n) == [j \in 1..n |-> None]

\* "if len(row) < cols: row = row + [None] * (cols - len(row))" for the rows
\* i..last that a loop of find_table_boundaries visits
RECURSIVE PadVisitedRows(_, _, _, _, _)
PadVisitedRows(h, sheet_ref, cols, i, last) ==
    IF i > last THEN h
    ELSE LET row == h[sheet_ref][i + 1]
             h1 == IF Len(h[row]) < cols
                   THEN Concat(h, row, Nones(cols - Len(h[row]))).heap
                   ELSE h
         IN  PadVisitedRows(h1, sheet_ref, cols, i + 1, last)

\* find_table_boundaries on the list sheet_ref: the heap it leaves behind
HeapAfterFindTableBoundaries(h, sheet_ref) ==
    LET d == Deref(h, sheet_ref)
        rows == Len(d)
        cols == MaxRowLen(d)
        header_row == ScanHeader(d, cols, 0)
    IN  IF d = <<>> \/ cols = 0 THEN h
        ELSE IF header_row = NoRow THEN PadVisitedRows(h, sheet_ref, cols, 0, rows - 1)
        ELSE LET table_end == ScanTableEnd(d, cols, header_row + 1)
                 stop == IF table_end + 1 < rows THEN table_end + 1 ELSE rows - 1
             IN  PadVisitedRows(PadVisitedRows(h, sheet_ref, cols, 0, header_row),
                                sheet_ref, cols, header_row + 1, stop)

\* the loop of extract_table_data: each row padded and sliced into a new list,
\* the new lists collected in rows
RECURSIVE ExtractRows(_, _, _, _, _, _, _)
ExtractRows(h, sheet_ref, row_idx, end_row, start_col, end_col, rows) ==
    IF row_idx > end_row THEN [heap |-> h, rows |-> rows]
    ELSE IF row_idx >= Len(h[sheet_ref])
         THEN ExtractRows(h, sheet_ref, row_idx + 1, end_row, start_col, end_col, rows)
         ELSE LET row == h[sheet_ref][row_idx + 1]
                  padded == IF Len(h[row]) <= end_col
                            THEN Concat(h, row, Nones(end_col - Len(h[row]) + 1))
                            ELSE [heap |-> h, ref |-> row]
                  table_row == Slice(padded.heap, padded.ref, start_col, end_col + 1)
              IN  ExtractRows(table_row.heap, sheet_ref, row_idx + 1, end_row,
                              start_col, end_col, Append(rows, table_row.ref))

\* extract_table_data on the list sheet_ref: the heap and the returned list
ExtractTableDataAt(h, sheet_ref, b) ==
    LET r == ExtractRows(h, sheet_ref, b[1], b[2], b[3], b[4], <<>>)
    IN  [heap |-> Append(r.heap, r.rows), ref |-> Len(r.heap) + 1]

\* "for i in range(first, len(table_data)): table_data[i].append(group_id)"
RECURSIVE AppendToRows(_, _, _, _)
AppendToRows(h, table_ref, i, x) ==
    IF i >= Len(h[table_ref]) THEN h
    ELSE AppendToRows(ListAppend(h, h[table_ref][i + 1], x), table_ref, i + 1, x)

\* add_group_column on the list table_ref: the heap and the returned list
AddGroupColumnAt(h, table_ref, gid) ==
    IF h[table_ref] = <<>> THEN [heap |-> h, ref |-> table_ref]
    ELSE LET h1 == ListAppend(h, h[table_ref][1], Text(Group))
             first == IF AnyNonEmpty(h1[h1[table_ref][1]]) THEN 1 ELSE 0
         IN  [heap |-> AppendToRows(h1, table_ref, first, Text(gid)), ref |-> table_ref]

----------------------------------------------------------------------------
(* Operations on the lists of one worksheet *)

\* sheet_data as read: one list per row and the list of these rows
AliasInit ==
    /\ \E sh \in Shapes : data \in GridsOfShape(sh)
    /\ heap = Append(data, [i \in 1..Len(data) |-> i])
    /\ frame = [sheet_data |-> Len(data) + 1, table_data |-> 0,
                table_data_with_group |-> 0, table_data_again |-> 0]
    /\ pc = "start"
    /\ boundaries = NoBoundaries
    /\ table_data = <<>>
    /\ group_id = <<>>
    /\ table = NoTable
    /\ df = NoFrame
    /\ sheet_name = <<>>
    /\ filename = <<>>
    /\ FileIdle
    /\ HandlerIdle

\* boundaries = self.find_table_boundaries(sheet_data)
CallFindTableBoundaries ==
    /\ pc = "start"
    /\ boundaries' = find_table_boundaries(Deref(heap, frame.sheet_data))
    /\ heap' = HeapAfterFindTableBoundaries(heap, frame.sheet_data)
    /\ pc' = IF boundaries' = NoBoundaries THEN "skipped" ELSE "located"
    /\ UNCHANGED <<data, table_data, group_id, table, df, sheet_name, filename, frame>>
    /\ UNCHANGED <<file_vars, handler_vars>>

\* table_data = self.extract_table_data(sheet_data, boundaries); table_data
\* (the variable) keeps the rows as they are returned
CallExtractTableData ==
    /\ pc = "located"
    /\ LET r == ExtractTableDataAt(heap, frame.sheet_data, boundaries)
       IN  /\ heap' = r.heap
           /\ frame' = [frame EXCEPT !.table_data = r.ref]
           /\ table_data' = Deref(r.heap, r.ref)
    /\ pc' = IF table_data' = <<>> THEN "skipped" ELSE "extracted"
    /\ UNCHANGED <<data, boundaries, group_id, table, df, sheet_name, filename>>
    /\ UNCHANGED <<file_vars, handler_vars>>

\* table_data_with_group = self.add_group_column(table_data, group_id)
CallAddGroupColumn(gid) ==
    /\ pc = "extracted"
    /\ group_id' = gid
    /\ LET r == AddGroupColumnAt(heap, frame.table_data, gid)
       IN  /\ heap' = r.heap
           /\ frame' = [frame EXCEPT !.table_data_with_group = r.ref]
    /\ pc' = "grouped"
    /\ UNCHANGED <<data, boundaries, table_data, table, df, sheet_name, filename>>
    /\ UNCHANGED <<file_vars, handler_vars>>

\* extract_table_data once more, with the same bounds on the same grid
CallExtractTableDataAgain ==
    /\ pc = "grouped"
    /\ LET r == ExtractTableDataAt(heap, frame.sheet_data, boundaries)
       IN  /\ heap' = r.heap
           /\ frame' = [frame EXCEPT !.table_data_again = r.ref]
    /\ pc' = "rematerialized"
    /\ UNCHANGED <<data, boundaries, table_data, group_id, table, df, sheet_name, filename>>
    /\ UNCHANGED <<file_vars, handler_vars>>

AliasNext ==
    \/ CallFindTableBoundaries
    \/ CallExtractTableData
    \/ \E gid \in GroupIds : CallAddGroupColumn(gid)
    \/ CallExtractTableDataAgain

AliasSpec == AliasInit /\ [][AliasNext]_vars

\* the lists in memory hold what the functions on values compute
ListsAgreeWithValues ==
    /\ pc = "extracted" => table_data = extract_table_data(data, boundaries)
    /\ pc = "grouped" =>
           Deref(heap, frame.table_data_with_group) = add_group_column(table_data, group_id)

\* C14: the input grid is read-only: after any sequence of find_table_boundaries,
\* extract_table_data and add_group_column calls on a grid every row and cell
\* of the grid is as it was read, so extracting the same bounds from the same
\* grid again yields the same headers and rows.
C14_GridReadOnly ==
    /\ heap[frame.sheet_data] = [i \in 1..Len(data) |-> i]
    /\ \A i \in 1..Len(data) : heap[i] = data[i]
    /\ Deref(heap, frame.sheet_data) = data
    /\ pc = "rematerialized" => Deref(heap, frame.table_data_again) = table_data

\* a table extracted again after a row shorter than the table was padded and
\* the group column was added to the first extraction
C14_Witness ==
    /\ pc = "rematerialized"
    /\ Len(table_data) >= 2
    /\ \E i \in 1..Len(data) : Len(data[i]) < MaxRowLen(data)
    /\ Deref(heap, frame.table_data) # table_data

\* C16: add_group_column returns a new structure: the table passed in (its rows
\* and their lengths) is after the call what it was before the call, and the
\* returned table is another object than the argument.
C16_EnrichmentReturnsNewTable ==
    pc = "grouped" =>
        /\ Deref(heap, frame.table_data) = table_data
        /\ frame.table_data_with_group # frame.table_data

----------------------------------------------------------------------------
(* scqt_cleanser invocations and their temporary files                      *)
(* (function_app.py, Updated_pyexcel.py, Updated.py, Pyexcel.py)            *)
(*                                                                          *)
(* variant "function_app": the temporary file is named after the blob, as   *)
(* in function_app.py and Updated_pyexcel.py; variant "Updated": it is a    *)
(* NamedTemporaryFile(delete=False), as in Updated.py and Pyexcel.py.       *)
(* A file of fs is [path, creator, content]: creator is the invocation      *)
(* whose open() created it, content the blob written to it (<<>> while it   *)
(* is empty).                                                               *)

NumInvocations == 2

Invocations == 1..NumInvocations

Variants == {"function_app", "Updated"}

HandlerBlobs ==
    {<<"a", "/", "r", ".", "x", "l", "s", "x">>,
     <<"b", "/", "r", ".", "x", "l", "s", "x">>,
     <<"a", "/", "s", ".", "x", "l", "s">>,
     <<"a", "/", "n", ".", "t", "x", "t">>}

tmp == <<"/", "t", "m", "p", "/">>

\* f"/tmp/{os.path.basename(blob_stream.name)}", or the name that
\* NamedTemporaryFile(suffix=...) picks, which no existing file has
temp_file_path(v, p, blob) ==
    IF v = "function_app" THEN tmp \o basename(blob)
    ELSE tmp \o <<"t", "m", "p">> \o IntToStr(p) \o splitext(basename(blob))[2]

\* os.path.exists(path)
exists(files, path) == \E f \in files : f.path = path

FileAt(files, path) == CHOOSE f \in files : f.path = path

\* os.remove(path)
remove(files, path) == {f \in files : f.path # path}

\* open(path, "wb"): the file is created, or emptied when it exists
open_wb(files, path, p) ==
    IF exists(files, path)
    THEN remove(files, path) \cup {[FileAt(files, path) EXCEPT !.content = <<>>]}
    ELSE files \cup {[path |-> path, creator |-> p, content |-> <<>>]}

\* f.write(content) through an open handle
write(files, path, content) ==
    remove(files, path) \cup {[FileAt(files, path) EXCEPT !.content = content]}

NoFile == [path |-> <<>>, creator |-> 0, content |-> <<>>]

\* an invocation: where it stands, its blob, its temp_file_path, whether its
\* handle still leads to the file at that path, the content it loaded, the
\* content its CSVs were made from, the file it removed, whether it opened or
\* wrote over a file of another invocation, and what made it fail
NewInvocation(blob) ==
    [pc |-> "start", blob |-> blob, path |-> <<>>, attached |-> FALSE,
     loaded |-> <<>>, uploaded |-> <<>>, removed |-> NoFile, clobbered |-> FALSE,
     cause |-> ""]

\* concurrent invocations, each for another blob
HandlerInit ==
    /\ variant \in Variants
    /\ inv \in {f \in [Invocations -> {NewInvocation(b) : b \in HandlerBlobs}] :
                    \A p, q \in Invocations : p # q => f[p].blob # f[q].blob}
    /\ fs = {}
    /\ pc = "handlers"
    /\ group_id = <<>>
    /\ SheetIdle
    /\ AliasIdle
    /\ FileIdle

----------------------------------------------------------------------------
(* Operations of an invocation *)

HandlerFrame == UNCHANGED <<pc, group_id, variant, sheet_vars, alias_vars, file_vars>>

\* if not is_excel_file(name): return
SkipBlob(p) ==
    /\ inv[p].pc = "start"
    /\ ~is_excel_file(inv[p].blob)
    /\ inv' = [inv EXCEPT ![p].pc = "returned"]
    /\ UNCHANGED fs
    /\ HandlerFrame

\* with open(temp_file_path, "wb") as f / with NamedTemporaryFile(...) as tmp_file
OpenTemp(p) ==
    /\ inv[p].pc = "start"
    /\ is_excel_file(inv[p].blob)
    /\ LET path == temp_file_path(variant, p, inv[p].blob)
       IN  /\ fs' = open_wb(fs, path, p)
           /\ inv' = [inv EXCEPT ![p] = [@ EXCEPT !.pc = "opened",
                                                  !.path = path,
                                                  !.attached = TRUE,
                                                  !.clobbered = exists(fs, path)]]
    /\ HandlerFrame

\* f.write(blob_stream.read()) and the end of the with block; a handle whose
\* file was removed in the meantime writes to a file that has no path
WriteTemp(p) ==
    /\ inv[p].pc = "opened"
    /\ IF inv[p].attached
       THEN /\ fs' = write(fs, inv[p].path, inv[p].blob)
            /\ inv' = [inv EXCEPT ![p] =
                          [@ EXCEPT !.pc = "written",
                                    !.attached = FALSE,
                                    !.clobbered =
                                        @ \/ FileAt(fs, inv[p].path).content
                                                 \notin {<<>>, inv[p].blob}]]
       ELSE /\ fs' = fs
            /\ inv' = [inv EXCEPT ![p] = [@ EXCEPT !.pc = "written", !.attached = FALSE]]
    /\ HandlerFrame

\* reading the blob raises inside the with block: the handler raises
DownloadFails(p) ==
    /\ inv[p].pc = "opened"
    /\ inv' = [inv EXCEPT ![p] =
                  [@ EXCEPT !.pc = "raised", !.attached = FALSE, !.cause = "download"]]
    /\ UNCHANGED fs
    /\ HandlerFrame

\* try: load_workbook(temp_file_path) / pe.get_book(file_name=temp_file_path)
LoadTempFile(p) ==
    /\ inv[p].pc = "written"
    /\ inv' = [inv EXCEPT ![p] =
                  IF ~exists(fs, inv[p].path)
                  THEN [@ EXCEPT !.pc = "failed", !.cause = "missing"]
                  ELSE IF FileAt(fs, inv[p].path).content = <<>>
                  THEN [@ EXCEPT !.pc = "failed", !.cause = "invalid"]
                  ELSE [@ EXCEPT !.pc = "loaded",
                                 !.loaded = FileAt(fs, inv[p].path).content]]
    /\ UNCHANGED fs
    /\ HandlerFrame

\* the loop over the sheets: every table of the loaded workbook is uploaded
ProcessSheets(p) ==
    /\ inv[p].pc = "loaded"
    /\ inv' = [inv EXCEPT ![p] = [@ EXCEPT !.pc = "processed", !.uploaded = inv[p].loaded]]
    /\ UNCHANGED fs
    /\ HandlerFrame

\* a sheet or an upload raises inside the loop
ProcessingFails(p) ==
    /\ inv[p].pc = "loaded"
    /\ inv' = [inv EXCEPT ![p] = [@ EXCEPT !.pc = "failed", !.cause = "processing"]]
    /\ UNCHANGED fs
    /\ HandlerFrame

\* finally: if os.path.exists(temp_file_path): os.remove(temp_file_path);
\* then the handler returns, or raises what the try block raised
RemoveTemp(p) ==
    /\ inv[p].pc \in {"processed", "failed"}
    /\ fs' = remove(fs, inv[p].path)
    /\ inv' = [q \in Invocations |->
                  IF q = p
                  THEN [inv[p] EXCEPT
                           !.pc = IF inv[p].pc = "processed" THEN "returned" ELSE "raised",
                           !.removed = IF exists(fs, inv[p].path)
                                       THEN FileAt(fs, inv[p].path) ELSE NoFile]
                  ELSE IF inv[q].pc = "opened" /\ inv[q].path = inv[p].path
                  THEN [inv[q] EXCEPT !.attached = FALSE]
                  ELSE inv[q]]
    /\ HandlerFrame

HandlerNext ==
    \E p \in Invocations :
        \/ SkipBlob(p)
        \/ OpenTemp(p)
        \/ WriteTemp(p)
        \/ DownloadFails(p)
        \/ LoadTempFile(p)
        \/ ProcessSheets(p)
        \/ ProcessingFails(p)
        \/ RemoveTemp(p)

HandlerSpec == HandlerInit /\ [][HandlerNext]_vars

----------------------------------------------------------------------------
(* Properties of the invocations *)

\* what one invocation does and meets when no other invocation touches its
\* temporary file
RunsAsAlone(p) ==
    /\ inv[p].loaded \in {<<>>, inv[p].blob}
    /\ inv[p].uploaded \in {<<>>, inv[p].blob}
    /\ inv[p].pc = "returned" /\ is_excel_file(inv[p].blob) => inv[p].uploaded = inv[p].blob
    /\ inv[p].cause \notin {"missing", "invalid"}
    /\ ~inv[p].clobbered
    /\ inv[p].removed.creator \in {0, p}
    /\ inv[p].removed.content \in {<<>>, inv[p].blob}

\* C15: invocations running concurrently on different source blobs share no
\* mutable state: under every interleaving of their steps each produces the
\* outputs it produces alone, and none reads, overwrites or deletes a
\* temporary file written by another.
C15_InvocationsIndependent ==
    pc = "handlers" => \A p \in Invocations : RunsAsAlone(p)

\* the same for the handlers that take a NamedTemporaryFile
NamedTemporaryFilesIndependent ==
    (pc = "handlers" /\ variant = "Updated") => \A p \in Invocations : RunsAsAlone(p)

\* C17: whichever step of the scqt_cleanser handler fails or succeeds, the
\* temporary file the handler created no longer exists when the handler
\* returns or raises.
C17_TempFileRemoved ==
    pc = "handlers" =>
        \A p \in Invocations :
            inv[p].pc \in {"returned", "raised"} => ~\E f \in fs : f.creator = p

----------------------------------------------------------------------------
(* Properties of the upload *)

\* C18: no extracted table is lost on upload: sheets with distinct names map to
\* distinct output blob names, so after the upload loop the output container
\* holds one CSV per entry of the tables dictionary, each with the content of
\* its entry, and no upload has overwritten a CSV of the same invocation.
C18_OneBlobPerTable ==
    pc = "uploaded" =>
        LET base_name == splitext(basename(blob_name))[1]
        IN  /\ \A i, j \in 1..Len(result) :
                   i # j => output_blob_name(base_name, result[i].name)
                                # output_blob_name(base_name, result[j].name)
            /\ Cardinality(container.blobs) = Len(result)
            /\ \A k \in 1..Len(result) :
                   [name |-> output_blob_name(base_name, result[k].name),
                    content |-> result[k].csv] \in container.blobs

====
